---- MODULE Spec2Model ----
(***************************************************************************)
(* A model of main.py of video-splitter-for-shorts-reel.                   *)
(*                                                                         *)
(*   Spec        the pipeline generate_reels_parts run from __main__:      *)
(*               open, validate, create directories, the segment loop,    *)
(*               the finally-cleanup, the summary, and the top-level       *)
(*               KeyboardInterrupt handler.                                *)
(*   SpecLayers  the layer section of the loop body (scale, logo,          *)
(*               username, the list handed to CompositeVideoClip).         *)
(*   SpecMerge   ensure_config_file and merge_config_and_cli.              *)
(*                                                                         *)
(* Times are counted in ticks, TicksPerSec ticks to the second, so that a  *)
(* media duration need not be a whole number of seconds while the start,   *)
(* end and part_duration arguments (Python ints) are whole seconds.        *)
(***************************************************************************)
EXTENDS Integers, Sequences, FiniteSets, TLC

VARIABLES
    \* ---- generate_reels_parts / __main__ ----
    pc,                   \* the statement about to run
    start_arg,            \* argument start (seconds)
    end_arg,              \* argument end: [some, v] (None is some = FALSE)
    part_duration,        \* argument part_duration (seconds)
    duration,             \* clip.duration of the media file (ticks)
    clip_open,            \* the VideoFileClip holds its decoder resources
    start,                \* local start after line 114 (ticks)
    end,                  \* local end after line 115 (ticks)
    output_folder_exists, \* output_base/{video_title}_{project_id} on disk
    temp_dir_exists,      \* temp/video_split_{project_id} on disk
    temp_files,           \* ordinals n with temp_audio_part{n}.m4a on disk
    files,                \* ordinals n with part_{n}.mp4 fully written
    i,                    \* enumerate(..., 1) ordinal of the current segment
    t,                    \* loop variable t (ticks)
    nxt,                  \* the next value the range iterator yields (ticks)
    sub,                  \* the current subclip's window [s, e] (ticks)
    segments,             \* exported segments, in export order
    exc,                  \* the exception in flight, "none" when there is none
    gen,                  \* generate_reels_parts: running, returned or raised
    printed,              \* the messages printed, in order
    failed_at,            \* ordinal of the segment whose stage raised, 0 if none
    \* ---- layer section of the loop body ----
    lpc,
    frame,                \* subclip.w, subclip.h
    username,             \* the username argument, a sequence of characters
    logo_image,           \* the logo_image argument is truthy (a path is set)
    logo_on_disk,         \* os.path.exists(logo_image)
    scaled,               \* size of scaled_video
    branch,               \* which resize call of lines 144-147 ran
    logo_clip,            \* logo_clip is not None
    username_text,        \* the text handed to the username TextClip
    clips_to_compose,     \* the list handed to CompositeVideoClip
    canvas,               \* size= handed to CompositeVideoClip
    \* ---- configuration ----
    mpc,
    cli_args,             \* the argparse namespace: key -> value (None: not given)
    config_file,          \* config.json at start: "absent", "invalid" or "dict"
    file_dict,            \* the dict config.json holds at start when "dict"
    config,               \* the dict handed to merge_config_and_cli
    written,              \* ensure_config_file wrote config.json
    merged                \* the result of merge_config_and_cli

pipeVars == <<pc, start_arg, end_arg, part_duration, duration, clip_open, start,
              end, output_folder_exists, temp_dir_exists, temp_files, files, i,
              t, nxt, sub, segments, exc, gen, printed, failed_at>>
layerVars == <<lpc, frame, username, logo_image, logo_on_disk, scaled, branch,
               logo_clip, username_text, clips_to_compose, canvas>>
mergeVars == <<mpc, cli_args, config_file, file_dict, config, written, merged>>
vars == <<pipeVars, layerVars, mergeVars>>

(***************************************************************************)
(* Bounds of the model.                                                    *)
(***************************************************************************)
TicksPerSec == 2
MaxSec == 3
MaxPartDuration == 2

(***************************************************************************)
(* Program constants.                                                      *)
(***************************************************************************)
VIDEO_WIDTH == 1080
VIDEO_HEIGHT == 1920

Max(a, b) == IF a >= b THEN a ELSE b
Min(a, b) == IF a <= b THEN a ELSE b

\* Python's None for the optional int argument end.
NoneArg == [some |-> FALSE, v |-> 0]
SomeArg(n) == [some |-> TRUE, v |-> n]
\* Python truthiness of an Optional[int]: None and 0 are both falsy.
Truthy(x) == x.some /\ x.v # 0

\* int(x) of a non-negative time given in ticks: the whole seconds below it.
IntTrunc(x) == (x \div TicksPerSec) * TicksPerSec
Secs(n) == n * TicksPerSec

(***************************************************************************)
(* generate_reels_parts, lines 110-227, and __main__, lines 376-381.       *)
(***************************************************************************)
NoSub == [s |-> 0, e |-> 0]

PipeIdle ==
    /\ pc = "idle" /\ start_arg = 0 /\ end_arg = NoneArg /\ part_duration = 1
    /\ duration = 0 /\ clip_open = FALSE /\ start = 0 /\ end = 0
    /\ output_folder_exists = FALSE /\ temp_dir_exists = FALSE
    /\ temp_files = {} /\ files = {} /\ i = 0 /\ t = 0 /\ nxt = 0
    /\ sub = NoSub /\ segments = <<>> /\ exc = "none" /\ gen = "idle"
    /\ printed = <<>> /\ failed_at = 0

PipeInit ==
    /\ pc = "open"
    /\ start_arg \in -1 .. MaxSec
    /\ end_arg \in {NoneArg} \cup {SomeArg(n) : n \in -1 .. MaxSec + 1}
    /\ part_duration \in 1 .. MaxPartDuration
    /\ duration \in 1 .. Secs(MaxSec) + 1
    /\ clip_open = FALSE /\ start = 0 /\ end = 0
    /\ output_folder_exists = FALSE /\ temp_dir_exists = FALSE
    /\ temp_files = {} /\ files = {} /\ i = 0 /\ t = 0 /\ nxt = 0
    /\ sub = NoSub /\ segments = <<>> /\ exc = "none" /\ gen = "running"
    /\ printed = <<>> /\ failed_at = 0

\* Line 114.
ClampStart(s) == Secs(Max(0, s))
\* Line 115: end = min(duration, end) if end else duration.
ClampEnd(e, d) == IF Truthy(e) THEN Min(d, Secs(e.v)) ELSE d
\* Line 128 without the clamp to end.
SubclipEndUnclamped(tt, pd, e) == tt + Secs(pd)

\* Line 128.
SubclipEnd(tt, pd, e) == Min(tt + Secs(pd), e)

\* Lines 110-111: VideoFileClip(input_video) opens the decoder.
\* No statement of main.py closes the clip (no clip.close(), no with
\* statement), so no action below resets clip_open.
OpenClip ==
    /\ pc = "open"
    /\ clip_open' = TRUE
    /\ pc' = "validate"
    /\ UNCHANGED <<start_arg, end_arg, part_duration, duration, start, end,
                   output_folder_exists, temp_dir_exists, temp_files, files, i,
                   t, nxt, sub, segments, exc, gen, printed, failed_at>>
    /\ UNCHANGED <<layerVars, mergeVars>>

\* Line 110 raising (missing or undecodable file): nothing in main catches it.
OpenFail ==
    /\ pc = "open"
    /\ exc' = "OSError"
    /\ gen' = "raised"
    /\ pc' = "exit"
    /\ UNCHANGED <<start_arg, end_arg, part_duration, duration, clip_open,
                   start, end, output_folder_exists, temp_dir_exists,
                   temp_files, files, i, t, nxt, sub, segments, printed,
                   failed_at>>
    /\ UNCHANGED <<layerVars, mergeVars>>

\* Lines 113-117.
Validate ==
    /\ pc = "validate"
    /\ start' = ClampStart(start_arg)
    /\ end' = ClampEnd(end_arg, duration)
    /\ IF start' >= end'
         THEN exc' = "ValueError" /\ gen' = "raised" /\ pc' = "exit"
         ELSE pc' = "mk_out" /\ UNCHANGED <<exc, gen>>
    /\ UNCHANGED <<start_arg, end_arg, part_duration, duration, clip_open,
                   output_folder_exists, temp_dir_exists, temp_files, files, i,
                   t, nxt, sub, segments, printed, failed_at>>
    /\ UNCHANGED <<layerVars, mergeVars>>

\* Lines 119-121.
MakeOutputFolder ==
    /\ pc = "mk_out"
    /\ output_folder_exists' = TRUE
    /\ pc' = "mk_temp"
    /\ UNCHANGED <<start_arg, end_arg, part_duration, duration, clip_open,
                   start, end, temp_dir_exists, temp_files, files, i, t, nxt,
                   sub, segments, exc, gen, printed, failed_at>>
    /\ UNCHANGED <<layerVars, mergeVars>>

\* Lines 123-124.
MakeTempDir ==
    /\ pc = "mk_temp"
    /\ temp_dir_exists' = TRUE
    /\ pc' = "try"
    /\ UNCHANGED <<start_arg, end_arg, part_duration, duration, clip_open,
                   start, end, output_folder_exists, temp_files, files, i, t,
                   nxt, sub, segments, exc, gen, printed, failed_at>>
    /\ UNCHANGED <<layerVars, mergeVars>>

\* Lines 126-127: the try block is entered and
\* enumerate(range(start, int(end), part_duration), 1) is built.
EnterTry ==
    /\ pc = "try"
    /\ nxt' = start
    /\ pc' = "loop"
    /\ UNCHANGED <<start_arg, end_arg, part_duration, duration, clip_open,
                   start, end, output_folder_exists, temp_dir_exists,
                   temp_files, files, i, t, sub, segments, exc, gen, printed,
                   failed_at>>
    /\ UNCHANGED <<layerVars, mergeVars>>

\* Line 127: the for statement asks the iterator for its next (i, t).
LoopNext ==
    /\ pc = "loop"
    /\ IF nxt < IntTrunc(end)
         THEN /\ i' = i + 1
              /\ t' = nxt
              /\ nxt' = nxt + Secs(part_duration)
              /\ pc' = "build"
         ELSE /\ pc' = "cleanup"
              /\ UNCHANGED <<i, t, nxt>>
    /\ UNCHANGED <<start_arg, end_arg, part_duration, duration, clip_open,
                   start, end, output_folder_exists, temp_dir_exists,
                   temp_files, files, sub, segments, exc, gen, printed,
                   failed_at>>
    /\ UNCHANGED <<layerVars, mergeVars>>

\* Lines 128-199: the subclip and its layers. What the layers are is local to
\* the iteration and is modelled on its own below (ScaleVideo .. ComposeClips).
BuildLayers ==
    /\ pc = "build"
    /\ sub' = [s |-> t, e |-> SubclipEnd(t, part_duration, end)]
    /\ pc' = "compose"
    /\ UNCHANGED <<start_arg, end_arg, part_duration, duration, clip_open,
                   start, end, output_folder_exists, temp_dir_exists,
                   temp_files, files, i, t, nxt, segments, exc, gen, printed,
                   failed_at>>
    /\ UNCHANGED <<layerVars, mergeVars>>

\* Lines 201-203.
Compose ==
    /\ pc = "compose"
    /\ pc' = "export"
    /\ UNCHANGED <<start_arg, end_arg, part_duration, duration, clip_open,
                   start, end, output_folder_exists, temp_dir_exists,
                   temp_files, files, i, t, nxt, sub, segments, exc, gen,
                   printed, failed_at>>
    /\ UNCHANGED <<layerVars, mergeVars>>

\* Lines 205-220: write_videofile writes part_{i}.mp4, using and then removing
\* temp_audio_part{i}.m4a, and "Saved ..." is printed.
Export ==
    /\ pc = "export"
    /\ files' = files \cup {i}
    /\ segments' = Append(segments, [index |-> i, s |-> sub.s, e |-> sub.e,
                                     part |-> i])
    /\ printed' = Append(printed, "saved")
    /\ pc' = "loop"
    /\ UNCHANGED <<start_arg, end_arg, part_duration, duration, clip_open,
                   start, end, output_folder_exists, temp_dir_exists,
                   temp_files, i, t, nxt, sub, exc, gen, failed_at>>
    /\ UNCHANGED <<layerVars, mergeVars>>

\* The loop body's exception swallowed and the loop carried on, as a
\* try/except inside the for statement would do.
RaiseInSegmentContinue ==
    /\ exc' = exc
    /\ failed_at' = i
    /\ pc' = "loop"

\* A statement of the loop body raising: control leaves the try block for the
\* finally clause with the exception in flight.
RaiseInSegment ==
    /\ exc' = "Exception"
    /\ failed_at' = i
    /\ pc' = "cleanup"

BuildFail ==
    /\ pc = "build"
    /\ RaiseInSegment
    /\ UNCHANGED <<start_arg, end_arg, part_duration, duration, clip_open,
                   start, end, output_folder_exists, temp_dir_exists,
                   temp_files, files, i, t, nxt, sub, segments, gen, printed>>
    /\ UNCHANGED <<layerVars, mergeVars>>

ComposeFail ==
    /\ pc = "compose"
    /\ RaiseInSegment
    /\ UNCHANGED <<start_arg, end_arg, part_duration, duration, clip_open,
                   start, end, output_folder_exists, temp_dir_exists,
                   temp_files, files, i, t, nxt, sub, segments, gen, printed>>
    /\ UNCHANGED <<layerVars, mergeVars>>

\* write_videofile raising: the temporary audio file may be left behind.
ExportFail ==
    /\ pc = "export"
    /\ RaiseInSegment
    /\ \E left \in BOOLEAN :
         temp_files' = IF left THEN temp_files \cup {i} ELSE temp_files
    /\ UNCHANGED <<start_arg, end_arg, part_duration, duration, clip_open,
                   start, end, output_folder_exists, temp_dir_exists, files, i,
                   t, nxt, sub, segments, gen, printed>>
    /\ UNCHANGED <<layerVars, mergeVars>>

\* Lines 222-225, and what follows the finally clause: the exception in
\* flight, if any, leaves generate_reels_parts; a KeyboardInterrupt reaches
\* the handler of line 379, anything else is uncaught.
Cleanup ==
    /\ pc = "cleanup"
    /\ IF temp_dir_exists
         THEN /\ temp_dir_exists' = FALSE
              /\ temp_files' = {}
              /\ printed' = Append(printed, "cleaned")
         ELSE UNCHANGED <<temp_dir_exists, temp_files, printed>>
    /\ IF exc = "none"
         THEN pc' = "summary" /\ UNCHANGED gen
         ELSE /\ gen' = "raised"
              /\ pc' = IF exc = "KeyboardInterrupt" THEN "main_except"
                                                    ELSE "exit"
    /\ UNCHANGED <<start_arg, end_arg, part_duration, duration, clip_open,
                   start, end, output_folder_exists, files, i, t, nxt, sub,
                   segments, exc, failed_at>>
    /\ UNCHANGED <<layerVars, mergeVars>>

\* Line 227.
Summary ==
    /\ pc = "summary"
    /\ printed' = Append(printed, "summary")
    /\ gen' = "returned"
    /\ pc' = "exit"
    /\ UNCHANGED <<start_arg, end_arg, part_duration, duration, clip_open,
                   start, end, output_folder_exists, temp_dir_exists,
                   temp_files, files, i, t, nxt, sub, segments, exc,
                   failed_at>>
    /\ UNCHANGED <<layerVars, mergeVars>>

\* The statements a KeyboardInterrupt can be raised at, by where they stand.
InTry == {"loop", "build", "compose", "export"}
OutsideTry == {"open", "validate", "mk_out", "mk_temp", "try", "cleanup",
               "summary"}

\* SIGINT while a statement of the try block is running (lines 127-220): the
\* statement does not complete and the finally clause runs.
InterruptInTry ==
    /\ pc \in InTry
    /\ exc' = "KeyboardInterrupt"
    /\ pc' = "cleanup"
    /\ UNCHANGED <<start_arg, end_arg, part_duration, duration, clip_open,
                   start, end, output_folder_exists, temp_dir_exists,
                   temp_files, files, i, t, nxt, sub, segments, gen, printed,
                   failed_at>>
    /\ UNCHANGED <<layerVars, mergeVars>>

\* SIGINT while a statement outside the try block is about to run (lines
\* 110-124, the finally clause itself, line 227): the statement does not
\* complete and the KeyboardInterrupt leaves generate_reels_parts at once.
InterruptOutsideTry ==
    /\ pc \in OutsideTry
    /\ exc' = "KeyboardInterrupt"
    /\ gen' = "raised"
    /\ pc' = "main_except"
    /\ UNCHANGED <<start_arg, end_arg, part_duration, duration, clip_open,
                   start, end, output_folder_exists, temp_dir_exists,
                   temp_files, files, i, t, nxt, sub, segments, printed,
                   failed_at>>
    /\ UNCHANGED <<layerVars, mergeVars>>

\* Lines 379-381: the interrupt is caught and the notice printed.
MainExcept ==
    /\ pc = "main_except"
    /\ printed' = Append(printed, "cancelled")
    /\ exc' = "none"
    /\ pc' = "exit"
    /\ UNCHANGED <<start_arg, end_arg, part_duration, duration, clip_open,
                   start, end, output_folder_exists, temp_dir_exists,
                   temp_files, files, i, t, nxt, sub, segments, gen,
                   failed_at>>
    /\ UNCHANGED <<layerVars, mergeVars>>

PipeNext ==
    \/ OpenClip \/ OpenFail \/ Validate \/ MakeOutputFolder \/ MakeTempDir
    \/ EnterTry \/ LoopNext \/ BuildLayers \/ Compose \/ Export
    \/ BuildFail \/ ComposeFail \/ ExportFail \/ Cleanup \/ Summary
    \/ InterruptInTry \/ InterruptOutsideTry \/ MainExcept

(***************************************************************************)
(* The layer section of the loop body, lines 142-203.                      *)
(***************************************************************************)
MaxW == 10
MaxH == 17
MaxNameLen == 2

Chars == {"@", "a", "b"}
RECURSIVE StringsUpTo(_)
StringsUpTo(n) ==
    IF n = 0 THEN {<<>>}
    ELSE LET shorter == StringsUpTo(n - 1)
         IN shorter \cup {Append(x, c) : x \in {y \in shorter : Len(y) = n - 1},
                                         c \in Chars}

NoSize == [w |-> 0, h |-> 0]

LayerIdle ==
    /\ lpc = "idle" /\ frame = NoSize /\ username = <<>>
    /\ logo_image = FALSE /\ logo_on_disk = FALSE /\ scaled = NoSize
    /\ branch = "none" /\ logo_clip = FALSE /\ username_text = <<>>
    /\ clips_to_compose = <<>> /\ canvas = NoSize

LayerInit ==
    /\ lpc = "scale"
    /\ frame \in [w : 1 .. MaxW, h : 1 .. MaxH]
    /\ username \in StringsUpTo(MaxNameLen)
    /\ logo_image \in BOOLEAN
    /\ logo_on_disk \in BOOLEAN
    /\ scaled = NoSize /\ branch = "none" /\ logo_clip = FALSE
    /\ username_text = <<>> /\ clips_to_compose = <<>> /\ canvas = NoSize

\* The comparison of line 144 with >= in place of >.
WiderOrEqualTarget(w, h) == w * 16 >= h * 9

\* Lines 143-144: aspect_ratio = w / h; aspect_ratio > 9 / 16. 9/16 is exact
\* in binary floating point and w / h is correctly rounded, so for frame sizes
\* the comparison is the one of the exact ratios.
WiderThanTarget(w, h) == w * 16 > h * 9

\* resize(width = W): newsize = [W, h * W / w], truncated to ints.
ResizeToWidth(sz, W) == [w |-> W, h |-> (sz.h * W) \div sz.w]
\* resize(height = H): newsize = [w * H / h, H], truncated to ints.
ResizeToHeight(sz, H) == [w |-> (sz.w * H) \div sz.h, h |-> H]

\* Lines 142-148.
ScaleVideo ==
    /\ lpc = "scale"
    /\ IF WiderThanTarget(frame.w, frame.h)
         THEN scaled' = ResizeToWidth(frame, VIDEO_WIDTH) /\ branch' = "width"
         ELSE scaled' = ResizeToHeight(frame, VIDEO_HEIGHT) /\ branch' = "height"
    /\ lpc' = "logo"
    /\ UNCHANGED <<frame, username, logo_image, logo_on_disk, logo_clip,
                   username_text, clips_to_compose, canvas>>
    /\ UNCHANGED <<pipeVars, mergeVars>>

\* Lines 150-156.
LogoOverlay ==
    /\ lpc = "logo"
    /\ logo_clip' = (logo_image /\ logo_on_disk)
    /\ lpc' = "username"
    /\ UNCHANGED <<frame, username, logo_image, logo_on_disk, scaled, branch,
                   username_text, clips_to_compose, canvas>>
    /\ UNCHANGED <<pipeVars, mergeVars>>

\* username[1:]
DropFirst(str) == SubSeq(str, 2, Len(str))
\* Lines 159-175: the text of the username TextClip.
UsernameLabel(name, hasLogo) ==
    IF hasLogo THEN <<"/">> \o DropFirst(name) ELSE name

\* Lines 158-181.
UsernameOverlay ==
    /\ lpc = "username"
    /\ username_text' = UsernameLabel(username, logo_clip)
    /\ lpc' = "compose"
    /\ UNCHANGED <<frame, username, logo_image, logo_on_disk, scaled, branch,
                   logo_clip, clips_to_compose, canvas>>
    /\ UNCHANGED <<pipeVars, mergeVars>>

\* Lines 196-199 with the username text appended before the title and the
\* part number.
ClipsToComposeUsernameBelow(hasLogo) ==
    <<"bg", "scaled_video">>
        \o (IF hasLogo THEN <<"logo_clip">> ELSE <<>>)
        \o <<"username_text", "title_text", "part_text">>

\* Lines 196-199.
ClipsToCompose(hasLogo) ==
    <<"bg", "scaled_video">>
        \o (IF hasLogo THEN <<"logo_clip">> ELSE <<>>)
        \o <<"title_text", "part_text", "username_text">>

\* Lines 195-203.
ComposeClips ==
    /\ lpc = "compose"
    /\ clips_to_compose' = ClipsToCompose(logo_clip)
    /\ canvas' = [w |-> VIDEO_WIDTH, h |-> VIDEO_HEIGHT]
    /\ lpc' = "composed"
    /\ UNCHANGED <<frame, username, logo_image, logo_on_disk, scaled, branch,
                   logo_clip, username_text>>
    /\ UNCHANGED <<pipeVars, mergeVars>>

LayerNext == ScaleVideo \/ LogoOverlay \/ UsernameOverlay \/ ComposeClips

(***************************************************************************)
(* Configuration: ensure_config_file, lines 49-89, and                     *)
(* merge_config_and_cli, lines 311-337.                                    *)
(*                                                                         *)
(* A JSON or argparse value is [t, n, s]: None, an int n, a float of n     *)
(* tenths, or a string s (a sequence of characters). Of the fifteen keys   *)
(* of DEFAULT_CONFIG the model keeps one string key and the three keys     *)
(* that are coerced to int; the other string keys are handled as username  *)
(* is.                                                                     *)
(***************************************************************************)
None == [t |-> "none", n |-> 0, s |-> <<>>]
IntV(n) == [t |-> "int", n |-> n, s |-> <<>>]
FloatV(tenths) == [t |-> "float", n |-> tenths, s |-> <<>>]
StrV(str) == [t |-> "str", n |-> 0, s |-> str]

Keys == {"username", "part_duration", "start", "end"}
\* Line 330.
IntKeys == {"part_duration", "start", "end"}

\* Lines 29-45.
DEFAULT_CONFIG ==
    [k \in Keys |->
        CASE k = "username" -> StrV(<<"@", "u", "s", "e", "r", "n", "a", "m", "e">>)
          [] k = "part_duration" -> IntV(30)
          [] k = "start" -> IntV(0)
          [] k = "end" -> None]

Digits == {"0", "1", "2", "3", "4", "5", "6", "7", "8", "9"}
DigitVal(c) ==
    CASE c = "0" -> 0 [] c = "1" -> 1 [] c = "2" -> 2 [] c = "3" -> 3
      [] c = "4" -> 4 [] c = "5" -> 5 [] c = "6" -> 6 [] c = "7" -> 7
      [] c = "8" -> 8 [] c = "9" -> 9

AllDigits(str) == Len(str) > 0 /\ \A j \in 1 .. Len(str) : str[j] \in Digits
RECURSIVE DigitsVal(_)
DigitsVal(str) ==
    IF Len(str) = 0 THEN 0
    ELSE 10 * DigitsVal(SubSeq(str, 1, Len(str) - 1)) + DigitVal(str[Len(str)])

\* int(x) raises for a string that is not an optionally signed decimal
\* numeral, and for None (not reached: line 331 skips None).
IntRaises(x) ==
    CASE x.t = "int" -> FALSE
      [] x.t = "float" -> FALSE
      [] x.t = "str" ->
            ~ (\/ AllDigits(x.s)
               \/ (Len(x.s) > 1 /\ x.s[1] = "-" /\ AllDigits(Tail(x.s))))
      [] OTHER -> TRUE

\* int(x) where it does not raise: a float is truncated towards zero.
IntOf(x) ==
    CASE x.t = "int" -> x.n
      [] x.t = "float" ->
            IF x.n >= 0 THEN x.n \div 10 ELSE 0 - ((0 - x.n) \div 10)
      [] x.t = "str" ->
            IF x.s[1] = "-" THEN 0 - DigitsVal(Tail(x.s)) ELSE DigitsVal(x.s)

\* What argparse can put in the namespace: None when the flag is not given,
\* a str for --username, an int for the type=int flags.
CliValues(k) ==
    IF k \in IntKeys THEN {None, IntV(0), IntV(7)}
    ELSE {None, StrV(<<"c">>)}

\* What config.json can hold under a key.
FileValues(k) ==
    CASE k = "username" -> {None, StrV(<<"f">>)}
      [] k = "part_duration" -> {None, IntV(45), StrV(<<"4", "5">>), StrV(<<"x">>)}
      [] k = "start" -> {IntV(5), FloatV(57), StrV(<<"-", "5">>)}
      [] k = "end" -> {None, IntV(0), StrV(<<>>), StrV(<<"9">>)}

AllFileValues == UNION {FileValues(k) : k \in Keys}
Dicts ==
    UNION {{d \in [D -> AllFileValues] : \A k \in D : d[k] \in FileValues(k)}
             : D \in SUBSET Keys}
EmptyDict == [k \in {} |-> None]

MergeIdle ==
    /\ mpc = "idle" /\ cli_args = EmptyDict /\ config_file = "absent"
    /\ file_dict = EmptyDict /\ config = EmptyDict /\ merged = EmptyDict
    /\ written = FALSE

MergeInit ==
    /\ mpc = "start"
    /\ cli_args \in {a \in [Keys -> UNION {CliValues(k) : k \in Keys}] :
                        \A k \in Keys : a[k] \in CliValues(k)}
    /\ config_file \in {"absent", "invalid", "dict"}
    /\ file_dict \in IF config_file = "dict" THEN Dicts ELSE {EmptyDict}
    /\ config = file_dict
    /\ merged = EmptyDict
    /\ written = FALSE

\* Lines 63-68: keys of the defaults missing from the loaded dict are added.
FillDefaults(d) ==
    [k \in Keys |-> IF k \in DOMAIN d THEN d[k] ELSE DEFAULT_CONFIG[k]]

\* ensure_config_file, lines 49-89: the dict it returns, and whether it
\* (re)wrote config.json with it.
EnsureConfigFile ==
    /\ mpc = "start"
    /\ IF config_file = "dict"
         THEN /\ config' = FillDefaults(file_dict)
              /\ written' = (DOMAIN file_dict # Keys)
         ELSE /\ config' = DEFAULT_CONFIG
              /\ written' = TRUE
    /\ mpc' = "ensured"
    /\ UNCHANGED <<cli_args, config_file, file_dict, merged>>
    /\ UNCHANGED <<pipeVars, layerVars>>

\* Lines 319-327 with the two tests swapped: config.json before the command
\* line.
MergeValueConfigFirst(cli, cfg, k) ==
    IF k \in DOMAIN cfg THEN cfg[k]
    ELSE IF cli[k] # None THEN cli[k]
    ELSE DEFAULT_CONFIG[k]

\* Lines 319-327, for one key.
MergeValue(cli, cfg, k) ==
    IF cli[k] # None THEN cli[k]
    ELSE IF k \in DOMAIN cfg THEN cfg[k]
    ELSE DEFAULT_CONFIG[k]

\* Lines 330-336, for one key.
CoerceInt(k, v) ==
    IF k \in IntKeys /\ v # None
      THEN IF IntRaises(v) THEN DEFAULT_CONFIG[k] ELSE IntV(IntOf(v))
      ELSE v

\* merge_config_and_cli, lines 311-337.
MergeConfigAndCli(cli, cfg) ==
    [k \in Keys |-> CoerceInt(k, MergeValue(cli, cfg, k))]

\* Line 348, main's call with the dict ensure_config_file returned.
Merge ==
    /\ mpc = "ensured"
    /\ merged' = MergeConfigAndCli(cli_args, config)
    /\ mpc' = "merged"
    /\ UNCHANGED <<cli_args, config_file, file_dict, config, written>>
    /\ UNCHANGED <<pipeVars, layerVars>>

\* merge_config_and_cli called on a dict as loaded, without the defaults
\* ensure_config_file fills in.
MergeLoaded ==
    /\ mpc = "start"
    /\ config_file = "dict"
    /\ merged' = MergeConfigAndCli(cli_args, config)
    /\ mpc' = "merged"
    /\ UNCHANGED <<cli_args, config_file, file_dict, config, written>>
    /\ UNCHANGED <<pipeVars, layerVars>>

MergeNext == EnsureConfigFile \/ Merge \/ MergeLoaded

(***************************************************************************)
(* The specifications.                                                     *)
(***************************************************************************)
Init == PipeInit /\ LayerIdle /\ MergeIdle
Next == PipeNext
Spec == Init /\ [][Next]_vars

InitLayers == LayerInit /\ PipeIdle /\ MergeIdle
NextLayers == LayerNext
SpecLayers == InitLayers /\ [][NextLayers]_vars

InitMerge == MergeInit /\ PipeIdle /\ LayerIdle
NextMerge == MergeNext
SpecMerge == InitMerge /\ [][NextMerge]_vars

(***************************************************************************)
(* Properties of the pipeline (Spec).                                      *)
(***************************************************************************)
\* The effective range as the specification states it: start clamped to
\* >= 0, a given end clamped to the media duration, the duration when no end
\* is given.
EffectiveStart == Secs(Max(0, start_arg))
EffectiveEnd ==
    IF end_arg.some THEN Min(duration, Secs(end_arg.v)) ELSE duration
CeilDiv(a, b) == (a + b - 1) \div b
LastSegment == segments[Len(segments)]
Printed(msg) == \E j \in 1 .. Len(printed) : printed[j] = msg

\* C1: a run over a valid effective range in which no segment fails exports
\* ceil((end - start) / part_duration) segments, and the last one is
\* (end - start) mod part_duration long when that is nonzero, else
\* part_duration long.
C1_SegmentCount ==
    (pc = "exit" /\ gen = "returned" /\ EffectiveStart < EffectiveEnd) =>
        LET span == EffectiveEnd - EffectiveStart
            step == Secs(part_duration)
        IN /\ Len(segments) = CeilDiv(span, step)
           /\ LastSegment.e - LastSegment.s =
                 IF span % step # 0 THEN span % step ELSE step

\* C2: once generate_reels_parts has returned or raised, the scratch
\* directory does not exist, whatever the exit path; the cancellation notice
\* comes after the cleanup message, and the caught interrupt is not
\* re-raised.
C2_ScratchRemovedOnEveryExit ==
    /\ gen \in {"returned", "raised"} => ~ temp_dir_exists
    /\ \A j, k \in 1 .. Len(printed) :
          (printed[j] = "cancelled" /\ printed[k] = "cleaned") => k < j
    /\ (pc = "exit" /\ Printed("cancelled")) => exc = "none"

\* C3: when a given end leaves start >= end after clamping, the run fails
\* with an error before the output directory or the scratch directory is
\* created and before any segment is produced.
C3_FailFast ==
    (end_arg.some /\ EffectiveStart >= EffectiveEnd) =>
        /\ ~ output_folder_exists
        /\ ~ temp_dir_exists
        /\ i = 0
        /\ pc = "exit" => gen = "raised"

\* C4: after a stage of segment k raises, no later segment is started, the
\* error leaves generate_reels_parts, the summary is not printed, and the
\* output directory and part_1 .. part_{k-1} stay on disk.
C4_FirstFailureStops ==
    failed_at # 0 =>
        /\ i = failed_at
        /\ pc \in {"cleanup", "main_except", "exit"}
        /\ gen # "returned"
        /\ pc = "exit" => gen = "raised"
        /\ ~ Printed("summary")
        /\ output_folder_exists
        /\ \A n \in 1 .. failed_at - 1 : n \in files

\* A run whose second segment failed after the first was exported.
C4_Witness ==
    /\ pc = "exit" /\ failed_at = 2 /\ exc = "Exception"
    /\ files = {1} /\ output_folder_exists

\* C5: when the run has ended, the source video handle is closed.
C5_ClipClosedAtExit == pc = "exit" => ~ clip_open

SegmentOk(seg) ==
    /\ 0 <= seg.s
    /\ seg.s < seg.e
    /\ seg.e <= duration
    /\ seg.e - seg.s <= Secs(part_duration)

\* C10: every segment the loop generates lies within the media,
\* 0 <= start < end <= duration, is at most part_duration long, and carries
\* the ordinal of its place in export order, which names its file part_{n}.
C10_SegmentInvariant ==
    /\ \A n \in 1 .. Len(segments) :
          /\ SegmentOk(segments[n])
          /\ segments[n].index = n
          /\ segments[n].part = n
    /\ pc \in {"compose", "export"} =>
          SegmentOk(sub) /\ i = Len(segments) + 1

\* Two segments exported, the last one cut short by a fractional end.
C10_Witness ==
    /\ Len(segments) >= 2
    /\ LastSegment.e - LastSegment.s < Secs(part_duration)
    /\ LastSegment.e % TicksPerSec # 0

(***************************************************************************)
(* Properties of the layer section (SpecLayers).                           *)
(***************************************************************************)
\* C6: a frame with w/h > 9/16 is scaled to width 1080, any other to height
\* 1920, w/h = 9/16 included; the composite canvas is 1080x1920.
C6_ScaleRule ==
    /\ lpc \in {"logo", "username", "compose", "composed"} =>
          IF frame.w * 16 > frame.h * 9
            THEN scaled.w = 1080 /\ branch = "width"
            ELSE scaled.h = 1920 /\ branch = "height"
    /\ lpc = "composed" => canvas = [w |-> 1080, h |-> 1920]

\* A 9:16 frame composed after taking the height branch.
C6_Witness ==
    /\ lpc = "composed" /\ frame = [w |-> 9, h |-> 16]
    /\ branch = "height" /\ scaled = [w |-> 1080, h |-> 1920]

StripLeadingAt(name) ==
    IF Len(name) > 0 /\ name[1] = "@" THEN Tail(name) ELSE name

\* C7: with a logo layer the username text is "/" followed by the username
\* without its leading "@" (all of it when it has none); without a logo
\* layer it is the username verbatim.
C7_UsernameText ==
    lpc \in {"compose", "composed"} =>
        username_text = IF logo_image /\ logo_on_disk
                          THEN <<"/">> \o StripLeadingAt(username)
                          ELSE username

LogoLayer == IF logo_image /\ logo_on_disk THEN <<"logo_clip">> ELSE <<>>

\* C9 as stated: bottom to top the compositor gets background, main video,
\* logo when present, username text, title text, part-number text.
C9_UsernameBelowTitle ==
    lpc = "composed" =>
        clips_to_compose = <<"bg", "scaled_video">> \o LogoLayer
                             \o <<"username_text", "title_text", "part_text">>

\* C9 as amended: bottom to top the compositor gets background, main video,
\* logo when present, title text, part-number text, username text: the
\* username text is the topmost layer.
C9_UsernameOnTop ==
    lpc = "composed" =>
        clips_to_compose = <<"bg", "scaled_video">> \o LogoLayer
                             \o <<"title_text", "part_text", "username_text">>

\* A composed segment with a logo layer.
C9_Witness ==
    /\ lpc = "composed" /\ logo_clip
    /\ Len(clips_to_compose) = 6 /\ clips_to_compose[6] = "username_text"

(***************************************************************************)
(* Properties of the configuration merge (SpecMerge).                      *)
(***************************************************************************)
\* The value precedence picks for key k: command line, then config.json as
\* it was when the program started, then the built-in default.
Chosen(k) ==
    IF cli_args[k] # None THEN cli_args[k]
    ELSE IF config_file = "dict" /\ k \in DOMAIN file_dict THEN file_dict[k]
    ELSE DEFAULT_CONFIG[k]

\* C8 as stated: every key gets the value precedence picks, the integer
\* fields as the int that value converts to.
C8_Precedence ==
    mpc = "merged" =>
        \A k \in Keys :
            IF k \in IntKeys /\ Chosen(k) # None
              THEN /\ ~ IntRaises(Chosen(k))
                   /\ merged[k] = IntV(IntOf(Chosen(k)))
              ELSE merged[k] = Chosen(k)

\* C8 as amended: every key gets the value precedence picks; an integer
\* field gets int() of that value when it is not None, and the built-in
\* default of the key when int() raises on it.
C8_PrecedenceWithFallback ==
    mpc = "merged" =>
        \A k \in Keys :
            IF k \in IntKeys /\ Chosen(k) # None
              THEN IF IntRaises(Chosen(k))
                     THEN merged[k] = DEFAULT_CONFIG[k]
                     ELSE merged[k] = IntV(IntOf(Chosen(k)))
              ELSE merged[k] = Chosen(k)

\* A merge in which the command line wins one key, config.json another, and
\* a config.json value that int() rejects gives way to the default.
C8_Witness ==
    /\ mpc = "merged"
    /\ cli_args["start"] = IntV(7) /\ merged["start"] = IntV(7)
    /\ "start" \in DOMAIN file_dict
    /\ cli_args["username"] = None /\ "username" \in DOMAIN file_dict
    /\ merged["username"] = StrV(<<"f">>)
    /\ cli_args["part_duration"] = None
    /\ "part_duration" \in DOMAIN file_dict
    /\ file_dict["part_duration"] = StrV(<<"x">>)
    /\ merged["part_duration"] = IntV(30)

====
